---------------------------- MODULE Spec2Model ----------------------------
(***************************************************************************)
(* A model of the appkitgui demo programs: the widget helper functions of  *)
(* appkitgui.py, the DemoWindow / AppDelegate / App classes of             *)
(* appkitgui.py and example.py, and the AppKit run loop that dispatches    *)
(* their callbacks.                                                        *)
(***************************************************************************)
EXTENDS Integers, Sequences, FiniteSets, TLC

(***************************************************************************)
(* Python's Optional values: None is the empty tuple, a value x is <<x>>.  *)
(***************************************************************************)
None == <<>>
Some(x) == <<x>>
Val(o) == o[1]

\* An argument the caller leaves out, so that the parameter's default applies.
Omitted == <<>>
Default(arg, d) == IF arg = Omitted THEN d ELSE Val(arg)

Put(f, k, v) == [x \in (DOMAIN f) \cup {k} |-> IF x = k THEN v ELSE f[x]]
Drop(f, k) == [x \in (DOMAIN f) \ {k} |-> f[x]]
Last(s) == s[Len(s)]
Front(s) == SubSeq(s, 1, Len(s) - 1)
RECURSIVE Without(_, _)
Without(s, x) ==
  IF s = <<>> THEN <<>>
  ELSE IF Head(s) = x THEN Without(Tail(s), x)
  ELSE <<Head(s)>> \o Without(Tail(s), x)
Range(s) == {s[i] : i \in DOMAIN s}

(***************************************************************************)
(* Constants of the program and of the AppKit names it imports.            *)
(***************************************************************************)
EDGE_INSET == 20
NSLayoutAttributeLeft == 1
NSLayoutAttributeTop == 3
NSLayoutAttributeCenterY == 10
NSStackViewDistributionFill == 0
NSUserInterfaceLayoutOrientationHorizontal == 0
NSUserInterfaceLayoutOrientationVertical == 1
NSFileHandlingPanelOKButton == 1
NSNormalWindowLevel == 0
NSOnState == 1

(***************************************************************************)
(* Bounds of the model.                                                    *)
(***************************************************************************)
\* alignment arguments tried: 0 .. MaxAlign
MaxAlign == 3
\* distribution arguments tried: 0 .. MaxDistribute
MaxDistribute == 2
\* labels the Add button may hold in the stack at once
MaxLabels == 3
\* width and height arguments tried for image_view: 0 .. MaxSize
MaxSize == 1
MaxBounds == 3
MaxRadius == 2

(***************************************************************************)
(* Python truth tests, per type (the `if x:` of the helpers).              *)
(***************************************************************************)
TruthyList(o) == o # None /\ Len(Val(o)) > 0
TruthyStr(o) == o # None /\ Val(o) # ""
TruthyObj(o) == o # None
TruthyInt(o) == o # None /\ Val(o) # 0

(***************************************************************************)
(* The helper functions of appkitgui.py.  A view object is a record of the *)
(* properties the helper sets; a property the helper leaves alone keeps    *)
(* the value the AppKit initializer gives it.                              *)
(***************************************************************************)
NSStackView_stackViewWithViews(views) ==
  [kind |-> "NSStackView", arranged |-> views, spacing |-> 0,
   orientation |-> NSUserInterfaceLayoutOrientationHorizontal,
   distribution |-> -1, alignment |-> NSLayoutAttributeCenterY]

hstack_swapped(align, distribute) ==
  [NSStackView_stackViewWithViews(<<>>) EXCEPT
     !.spacing = 8,
     !.orientation = NSUserInterfaceLayoutOrientationHorizontal,
     !.distribution = Default(align, NSLayoutAttributeCenterY),
     !.alignment = Default(distribute, NSStackViewDistributionFill)]

hstack(align, distribute) ==
  [NSStackView_stackViewWithViews(<<>>) EXCEPT
     !.spacing = 8,
     !.orientation = NSUserInterfaceLayoutOrientationHorizontal,
     !.distribution = Default(distribute, NSStackViewDistributionFill),
     !.alignment = Default(align, NSLayoutAttributeCenterY)]

vstack(align, distribute) ==
  [NSStackView_stackViewWithViews(<<>>) EXCEPT
     !.spacing = 8,
     !.orientation = NSUserInterfaceLayoutOrientationVertical,
     !.distribution = Default(distribute, NSStackViewDistributionFill),
     !.alignment = Default(align, NSLayoutAttributeLeft)]

label(value) ==
  [kind |-> "NSTextField", stringValue |-> value, editable |-> FALSE,
   selectable |-> FALSE, bordered |-> FALSE, backgroundColor |-> "clear"]

\* LinkLabel's super().init(), NSTextField's: an editable, selectable,
\* bordered text field with no text.
NSTextField_init ==
  [kind |-> "LinkLabel", stringValue |-> "", url |-> "", editable |-> TRUE,
   selectable |-> TRUE, bordered |-> TRUE, bezeled |-> TRUE,
   drawsBackground |-> TRUE, cursorRects |-> 0]

attributedStringWithLinkToURL_text_(url, text) == [string |-> text, link |-> url]

initWithText_URL_editable(text, url) ==
  [NSTextField_init EXCEPT
     !.stringValue = attributedStringWithLinkToURL_text_(url, text).string,
     !.url = url,
     !.bordered = FALSE,
     !.bezeled = FALSE,
     !.drawsBackground = FALSE]

initWithText_URL_(text, url) ==
  [NSTextField_init EXCEPT
     !.stringValue = attributedStringWithLinkToURL_text_(url, text).string,
     !.url = url,
     !.bordered = FALSE,
     !.selectable = FALSE,
     !.editable = FALSE,
     !.bezeled = FALSE,
     !.drawsBackground = FALSE]

link(text, url) == initWithText_URL_(text, url)

button(title, target, action) ==
  [kind |-> "NSButton", title |-> title, target |-> target, action |-> action,
   buttonType |-> "MomentaryPushIn", state |-> 0]

checkbox(title, target, action) ==
  [button(title, target, action) EXCEPT !.buttonType = "Switch"]

radio_button(title, target, action) ==
  [button(title, target, action) EXCEPT !.buttonType = "Radio"]

\* NSComboBox.initWithFrame_: no items, nothing selected (index -1).
NSComboBox_initWithFrame ==
  [kind |-> "NSComboBox", items |-> <<>>, selected |-> -1, target |-> None,
   targetSet |-> FALSE, action |-> None, actionSet |-> FALSE,
   delegate |-> None, delegateSet |-> FALSE, completes |-> FALSE,
   editable |-> TRUE]

combo_box_selects_last(values, target, action, delegate) ==
  LET c0 == [NSComboBox_initWithFrame EXCEPT !.target = target, !.targetSet = TRUE]
      c1 == IF TruthyList(values)
            THEN [c0 EXCEPT !.items = Val(values), !.selected = Len(Val(values)) - 1]
            ELSE c0
      c2 == IF TruthyObj(delegate)
            THEN [c1 EXCEPT !.delegate = delegate, !.delegateSet = TRUE]
            ELSE c1
      c3 == IF TruthyStr(action)
            THEN [c2 EXCEPT !.action = action, !.actionSet = TRUE]
            ELSE c2
  IN [c3 EXCEPT !.completes = TRUE, !.editable = FALSE]

combo_box(values, target, action, delegate) ==
  LET c0 == [NSComboBox_initWithFrame EXCEPT !.target = target, !.targetSet = TRUE]
      c1 == IF TruthyList(values)
            THEN [c0 EXCEPT !.items = c0.items \o Val(values), !.selected = 0]
            ELSE c0
      c2 == IF TruthyObj(delegate)
            THEN [c1 EXCEPT !.delegate = delegate, !.delegateSet = TRUE]
            ELSE c1
      c3 == IF TruthyStr(action)
            THEN [c2 EXCEPT !.action = action, !.actionSet = TRUE]
            ELSE c2
  IN [c3 EXCEPT !.completes = TRUE, !.editable = FALSE]

hseparator ==
  [kind |-> "NSBox", boxType |-> "Separator",
   translatesAutoresizingMaskIntoConstraints |-> FALSE]

(***************************************************************************)
(* The state: the environment, the App.run frame, the AppDelegate, the     *)
(* DemoWindow and its views, and what the handlers leave behind.           *)
(***************************************************************************)
VARIABLES
  program,          \* which script runs: "appkitgui", "example", or "api"
                    \* (a client that calls the helper functions directly)
  files,            \* the image files that exist on disk
  phase,            \* "start", "launching", "running", "terminated"
  runLocals,        \* App.run's local variable `delegate`
  nsappDelegate,    \* NSApp's delegate (a reference NSApp does not own)
  delegateWindow,   \* AppDelegate.window
  window,           \* DemoWindow.window: None or Some(the NSWindow)
  views,            \* the view objects: name |-> properties
  superview,        \* name |-> the name of its superview (views that have one)
  arranged,         \* stack view name |-> its arranged subviews, in order
  constraints,      \* the active layout constraints
  label_stack_list, \* DemoWindow._label_stack_list: None while unset
  lastWindowClosed, \* the last window closed and AppKit has yet to ask the delegate
  openedURL,        \* the URL NSWorkspace was last asked to open
  cursorPushed,     \* whether the pointing-hand cursor is pushed
  raised,           \* whether the last callback raised an exception
  lastHandler,      \* the last callback dispatched, with its input (what it
                    \* prints is a function of the two)
  ret               \* program "api": what the last helper call returned

appVars == <<phase, runLocals, nsappDelegate, delegateWindow>>
demoVars == <<window, views, superview, arranged, constraints, label_stack_list>>
vars == <<program, files, phase, runLocals, nsappDelegate, delegateWindow,
          window, views, superview, arranged, constraints, label_stack_list,
          lastWindowClosed, openedURL, cursorPushed, raised, lastHandler,
          ret>>

(***************************************************************************)
(* image_view.  NSImage.initByReferencingFile_ is lazy: it records the     *)
(* path and opens nothing, so the image object exists whether or not the   *)
(* file does.                                                              *)
(***************************************************************************)
NSImage_initByReferencingFile(path) == [path |-> path, valid |-> path \in files]

image_view_checked(path, width, height) ==
  IF path \notin files
  THEN [exception |-> "AttributeError"]
  ELSE [kind |-> "NSImageView", image |-> NSImage_initByReferencingFile(path),
        imageScaling |-> "ProportionallyUpOrDown", imageAlignment |-> "TopLeft",
        own |-> (IF TruthyInt(width)
                 THEN <<[attr |-> "width", constant |-> Val(width)]>> ELSE <<>>)
             \o (IF TruthyInt(height)
                 THEN <<[attr |-> "height", constant |-> Val(height)]>> ELSE <<>>)]

image_view(path, width, height) ==
  [kind |-> "NSImageView", image |-> NSImage_initByReferencingFile(path),
   imageScaling |-> "ProportionallyUpOrDown", imageAlignment |-> "TopLeft",
   own |-> (IF TruthyInt(width)
            THEN <<[attr |-> "width", constant |-> Val(width)]>> ELSE <<>>)
        \o (IF TruthyInt(height)
            THEN <<[attr |-> "height", constant |-> Val(height)]>> ELSE <<>>)]

IsException(obj) == "exception" \in DOMAIN obj

(***************************************************************************)
(* DemoWindow.show as the sequence of its statements.  A statement is      *)
(*   create_window       self.window = self.create_window()                *)
(*   assign a obj        self.a = obj, obj the view a helper returned      *)
(*   addSubview a b      a.addSubview_(b)                                  *)
(*   addArranged a b     a.addArrangedSubview_(b), a.append(b)             *)
(*   constrain a b obj   activate a constraint between a and b             *)
(*   setState a obj      a.setState_(obj)                                  *)
(*   makeVisible         makeKeyAndOrderFront_ ... setReleasedWhenClosed_  *)
(* and Exec runs them in order, stopping at the first exception.           *)
(***************************************************************************)
Stmt(op, a, b, obj) == [op |-> op, a |-> a, b |-> b, obj |-> obj]
Assign(a, obj) == Stmt("assign", a, "", obj)
AddArranged(a, b) == Stmt("addArranged", a, b, None)
Constrain(a, b, attr, constant) ==
  Stmt("constrain", a, b, [attr |-> attr, constant |-> constant])

Self == Some("self")

RECURSIVE Ancestors(_, _)
Ancestors(sv, v) ==
  {v} \cup (IF v \in DOMAIN sv THEN Ancestors(sv, sv[v]) ELSE {})

HaveCommonAncestor(sv, a, b) == Ancestors(sv, a) \cap Ancestors(sv, b) # {}

create_window ==
  [title |-> "Demo Window", width |-> 600, height |-> 600,
   styleMask |-> {"titled", "closable", "resizable"}, visible |-> FALSE,
   key |-> FALSE, level |-> NSNormalWindowLevel, releasedWhenClosed |-> TRUE]

\* create_main_view_: the stack it builds, then the statements that add it
\* to the window's content view and pin its top, left and right edges.
main_view_stack ==
  [NSStackView_stackViewWithViews(<<>>) EXCEPT
     !.orientation = NSUserInterfaceLayoutOrientationVertical,
     !.spacing = 8,
     !.distribution = NSStackViewDistributionFill,
     !.alignment = NSLayoutAttributeLeft]

\* Pinning the edges before the main view is in the window.
create_main_view_constrains_first ==
  << Assign("main_view", main_view_stack),
     Constrain("main_view", "content", "top", 0),
     Constrain("main_view", "content", "left", 0),
     Constrain("main_view", "content", "right", 0),
     Stmt("addSubview", "content", "main_view", None) >>

create_main_view_ ==
  << Assign("main_view", main_view_stack),
     Stmt("addSubview", "content", "main_view", None),
     Constrain("main_view", "content", "top", 0),
     Constrain("main_view", "content", "left", 0),
     Constrain("main_view", "content", "right", 0) >>

show_appkitgui ==
  << Stmt("create_window", "", "", create_window) >>
  \o create_main_view_
  \o << Assign("label_hello", label("Hello World")),
        AddArranged("main_view", "label_hello"),
        Assign("link", link("AppKitGUI on GitHub",
                            "https://github.com/RhetTbull/appkitgui")),
        AddArranged("main_view", "link"),
        Assign("hstack1", hstack(Omitted, Omitted)),
        AddArranged("main_view", "hstack1"),
        Assign("choose_file_button", button("Choose File", Self, Some("chooseFile:"))),
        AddArranged("hstack1", "choose_file_button"),
        Assign("label_file", label("")),
        AddArranged("hstack1", "label_file"),
        Assign("hstack2", hstack(Omitted, Omitted)),
        AddArranged("main_view", "hstack2"),
        Assign("vstack1", vstack(Omitted, Omitted)),
        AddArranged("hstack2", "vstack1"),
        Assign("checkbox1", checkbox("Checkbox 1", Self, Some("checkboxAction:"))),
        AddArranged("vstack1", "checkbox1"),
        Assign("checkbox2", checkbox("Checkbox 2", Self, Some("checkboxAction:"))),
        AddArranged("vstack1", "checkbox2"),
        Assign("checkbox3", checkbox("Checkbox 3", Self, Some("checkboxAction:"))),
        AddArranged("vstack1", "checkbox3"),
        Assign("vstack2", vstack(Omitted, Omitted)),
        AddArranged("hstack2", "vstack2"),
        Assign("radio1", radio_button("Radio 1", Self, Some("radioAction:"))),
        Assign("radio2", radio_button("Radio 2", Self, Some("radioAction:"))),
        Assign("radio3", radio_button("Radio 3", Self, Some("radioAction:"))),
        AddArranged("vstack2", "radio1"),
        AddArranged("vstack2", "radio2"),
        AddArranged("vstack2", "radio3"),
        Stmt("setState", "radio1", "", NSOnState),
        Assign("combo_box", combo_box(Some(<<"Combo 1", "Combo 2", "Combo 3">>),
                                      Self, Some("comboBoxAction:"), Self)),
        AddArranged("hstack2", "combo_box"),
        Assign("hsep", hseparator),
        AddArranged("main_view", "hsep"),
        Constrain("hsep", "main_view", "right", 0 - EDGE_INSET),
        Assign("image", image_view("image.jpeg", Some(200), Omitted)),
        AddArranged("main_view", "image"),
        Stmt("makeVisible", "", "", None) >>

(***************************************************************************)
(* example.py.  Its helpers come from the appkitgui package, which has     *)
(* more of them than appkitgui.py: a helper appkitgui.py defines with the  *)
(* same parameters is taken from there, any other one is a view of its     *)
(* kind with nothing more known about it.                                  *)
(***************************************************************************)
lib_view(kind) == [kind |-> kind]
lib_stack(orientation) ==
  [NSStackView_stackViewWithViews(<<>>) EXCEPT !.orientation = orientation]
lib_window(title, width, height) ==
  [create_window EXCEPT !.title = title, !.width = width, !.height = height]

DotView_initWithFrame_ == [kind |-> "DotView", radius |-> 25, color |-> "orange"]

(***************************************************************************)
(* DotView.  Python's / is true division, so half a width is not always a  *)
(* whole number of points: the dot rectangle is kept in half points.       *)
(* Pt(n) is n points and Half(n) is n / 2 points, both in half points.     *)
(* The bounds and the radius are in points, as the code holds them.        *)
(***************************************************************************)
Pt(n) == 2 * n
Half(n) == n

NSMakeRect(x, y, w, h) == [x |-> x, y |-> y, width |-> w, height |-> h]

\* self.bounds(): the view's own rectangle, its origin at (0, 0).
setBoundsSize(self, w, h) == Put(self, "bounds", NSMakeRect(0, 0, w, h))

changeRadius_(self, value) == [self EXCEPT !.radius = value]

\* Halving the bounds with // instead of /.
drawRect_floor(self, rect) ==
  LET dotRect == NSMakeRect(Pt(self.bounds.width \div 2) - Pt(self.radius),
                            Pt(self.bounds.height \div 2) - Pt(self.radius),
                            Pt(self.radius * 2),
                            Pt(self.radius * 2))
  IN Put(Put(Put(self, "dotRect", dotRect),
             "filled", <<"white", self.bounds>>),
         "oval", <<self.color, dotRect>>)

\* drawRect_ paints the bounds white, then the dot's oval in self.color.
drawRect_(self, rect) ==
  LET dotRect == NSMakeRect(Half(self.bounds.width) - Pt(self.radius),
                            Half(self.bounds.height) - Pt(self.radius),
                            Pt(self.radius * 2),
                            Pt(self.radius * 2))
  IN Put(Put(Put(self, "dotRect", dotRect),
             "filled", <<"white", self.bounds>>),
         "oval", <<self.color, dotRect>>)

show_example ==
  << Stmt("create_window", "", "", lib_window("Demo Window", 800, 600)),
     Assign("main_view", lib_stack(NSUserInterfaceLayoutOrientationVertical)),
     Stmt("addSubview", "content", "main_view", None),
     Assign("hstack0", hstack(Omitted, Omitted)),
     AddArranged("main_view", "hstack0"),
     Assign("hstack0_0", hstack(Omitted, Omitted)),
     Assign("hstack0_1", hstack(Omitted, Omitted)),
     AddArranged("hstack0", "hstack0_0"),
     AddArranged("hstack0", "hstack0_1"),
     Assign("label_hello", label("Hello World")),
     AddArranged("hstack0_0", "label_hello"),
     Assign("link", link("AppKitGUI on GitHub",
                         "https://github.com/RhetTbull/appkitgui")),
     AddArranged("hstack0_1", "link"),
     Constrain("hstack0_0", "hstack0_1", "width", 0),
     Constrain("hstack0", "main_view", "width", 0 - EDGE_INSET),
     Assign("hstack1", hstack(Omitted, Omitted)),
     AddArranged("main_view", "hstack1"),
     Assign("choose_file_button", button("Choose File", Self, Some("chooseFile:"))),
     AddArranged("hstack1", "choose_file_button"),
     Assign("label_file", label("")),
     AddArranged("hstack1", "label_file"),
     Assign("hstack2", hstack(Some(NSLayoutAttributeTop), Omitted)),
     AddArranged("main_view", "hstack2"),
     Assign("vstack1", vstack(Omitted, Omitted)),
     AddArranged("hstack2", "vstack1"),
     Assign("checkbox1", checkbox("Checkbox 1", Self, Some("checkboxAction:"))),
     Assign("checkbox2", checkbox("Checkbox 2", Self, Some("checkboxAction:"))),
     Assign("checkbox3", checkbox("Checkbox 3", Self, Some("checkboxAction:"))),
     AddArranged("vstack1", "checkbox1"),
     AddArranged("vstack1", "checkbox2"),
     AddArranged("vstack1", "checkbox3"),
     Assign("vstack2", vstack(Omitted, Omitted)),
     AddArranged("hstack2", "vstack2"),
     Assign("radio1", radio_button("Radio 1", Self, Some("radioAction:"))),
     Assign("radio2", radio_button("Radio 2", Self, Some("radioAction:"))),
     Assign("radio3", radio_button("Radio 3", Self, Some("radioAction:"))),
     AddArranged("vstack2", "radio1"),
     AddArranged("vstack2", "radio2"),
     AddArranged("vstack2", "radio3"),
     Stmt("setState", "radio1", "", NSOnState),
     Assign("combo_box_1", lib_view("NSComboBox")),
     AddArranged("hstack2", "combo_box_1"),
     Assign("combo_box_2", lib_view("NSComboBox")),
     AddArranged("hstack2", "combo_box_2"),
     Assign("popup_button", lib_view("NSPopUpButton")),
     AddArranged("hstack2", "popup_button"),
     Assign("stepper_field", lib_view("NSTextField")),
     Assign("stepper", lib_view("NSStepper")),
     AddArranged("hstack2", "stepper"),
     AddArranged("hstack2", "stepper_field"),
     Assign("hsep", hseparator),
     AddArranged("main_view", "hsep"),
     Constrain("hsep", "main_view", "width", 0 - EDGE_INSET),
     Assign("hstack3", hstack(Some(NSLayoutAttributeCenterY), Omitted)),
     AddArranged("main_view", "hstack3"),
     Assign("image", lib_view("NSImageView")),
     AddArranged("hstack3", "image"),
     Assign("vstack3", vstack(Omitted, Omitted)),
     AddArranged("hstack3", "vstack3"),
     Assign("button_add", button("Add", Self, Some("buttonAddToStack:"))),
     Assign("button_remove", button("Remove", Self, Some("buttonRemoveFromStack:"))),
     Assign("label_stack",
            label("Click Add / Remove to\nadd or remove items\nfrom the stack.")),
     AddArranged("vstack3", "button_add"),
     AddArranged("vstack3", "label_stack"),
     AddArranged("vstack3", "button_remove"),
     Assign("vstack4", lib_stack(NSUserInterfaceLayoutOrientationVertical)),
     AddArranged("hstack3", "vstack4"),
     Assign("dot_view", DotView_initWithFrame_),
     Assign("color_well", lib_view("NSColorWell")),
     Assign("slider", lib_view("NSSlider")),
     AddArranged("hstack3", "slider"),
     AddArranged("hstack3", "color_well"),
     AddArranged("hstack3", "dot_view"),
     Assign("hsep2", hseparator),
     AddArranged("main_view", "hsep2"),
     Assign("hstack4", lib_stack(NSUserInterfaceLayoutOrientationHorizontal)),
     AddArranged("main_view", "hstack4"),
     Assign("hsep3", hseparator),
     AddArranged("main_view", "hsep3"),
     Assign("hstack5", hstack(Some(NSLayoutAttributeTop), Omitted)),
     AddArranged("main_view", "hstack5"),
     Assign("date_picker", lib_view("NSDatePicker")),
     AddArranged("hstack5", "date_picker"),
     Assign("label_date", label("Date:")),
     AddArranged("hstack5", "label_date"),
     Assign("time_picker", lib_view("NSDatePicker")),
     AddArranged("hstack5", "time_picker"),
     Assign("search_field", lib_view("NSSearchField")),
     AddArranged("hstack5", "search_field"),
     Assign("hsep4", hseparator),
     AddArranged("main_view", "hsep4"),
     Assign("hstack6", hstack(Some(NSLayoutAttributeTop), Omitted)),
     AddArranged("main_view", "hstack6"),
     Assign("text_field", lib_view("NSTextField")),
     AddArranged("hstack6", "text_field"),
     Assign("text_view", lib_view("NSTextView")),
     AddArranged("hstack6", "text_view"),
     Stmt("makeVisible", "", "", None) >>

(***************************************************************************)
(* Running the statements on the DemoWindow's state.                       *)
(***************************************************************************)
Raise(s) == [s EXCEPT !.raised = TRUE]

OwnConstraints(name, obj) ==
  IF "own" \in DOMAIN obj
  THEN {[item |-> name, toItem |-> "", attr |-> obj.own[i].attr,
         constant |-> obj.own[i].constant] : i \in DOMAIN obj.own}
  ELSE {}

ExecStmt(s, o) ==
  CASE o.op = "create_window" ->
         [s EXCEPT !.window = Some(o.obj),
                   !.views = Put(@, "content", [kind |-> "NSView"])]
    [] o.op = "assign" ->
         IF IsException(o.obj) THEN Raise(s)
         ELSE [s EXCEPT
                 !.views = Put(@, o.a, o.obj),
                 !.arranged = IF o.obj.kind = "NSStackView"
                              THEN Put(@, o.a, o.obj.arranged) ELSE @,
                 !.constraints = @ \cup OwnConstraints(o.a, o.obj)]
    [] o.op = "addSubview" ->
         [s EXCEPT !.superview = Put(@, o.b, o.a)]
    [] o.op = "addArranged" ->
         [s EXCEPT !.arranged = [@ EXCEPT ![o.a] = Append(@, o.b)],
                   !.superview = Put(@, o.b, o.a)]
    [] o.op = "constrain" ->
         IF HaveCommonAncestor(s.superview, o.a, o.b)
         THEN [s EXCEPT !.constraints =
                 @ \cup {[item |-> o.a, toItem |-> o.b, attr |-> o.obj.attr,
                          constant |-> o.obj.constant]}]
         ELSE Raise(s)
    [] o.op = "setState" ->
         [s EXCEPT !.views = [@ EXCEPT ![o.a].state = o.obj]]
    [] o.op = "makeVisible" ->
         [s EXCEPT !.window = Some([Val(@) EXCEPT
                     !.key = TRUE, !.visible = TRUE,
                     !.level = NSNormalWindowLevel,
                     !.releasedWhenClosed = FALSE])]

RECURSIVE Exec(_, _)
Exec(s, stmts) ==
  IF stmts = <<>> \/ s.raised THEN s
  ELSE Exec(ExecStmt(s, Head(stmts)), Tail(stmts))

\* A DemoWindow after alloc().init(): no attribute set yet.
DemoWindow_init ==
  [window |-> None, views |-> <<>>, superview |-> <<>>, arranged |-> <<>>,
   constraints |-> {}, raised |-> FALSE]

show == Exec(DemoWindow_init,
             IF program = "example" THEN show_example ELSE show_appkitgui)

(***************************************************************************)
(* The initial state: the process has started and App().run() has not.     *)
(***************************************************************************)
Programs == {"appkitgui", "example", "api"}
ImageFiles == {"image.jpeg"}

Init ==
  /\ program \in Programs
  /\ files \in SUBSET ImageFiles
  /\ phase = "start"
  /\ runLocals = None
  /\ nsappDelegate = None
  /\ delegateWindow = None
  /\ window = None
  /\ views = <<>>
  /\ superview = <<>>
  /\ arranged = <<>>
  /\ constraints = {}
  /\ label_stack_list = None
  /\ lastWindowClosed = FALSE
  /\ openedURL = None
  /\ cursorPushed = FALSE
  /\ raised = FALSE
  /\ lastHandler = <<"">>
  /\ ret = None

(***************************************************************************)
(* App.run: create the application and its menu, create the delegate,      *)
(* keep it in the local variable `delegate`, hand it to NSApp and enter    *)
(* the run loop.  The frame, and so the local, lives until the loop ends.  *)
(***************************************************************************)
run_drops_delegate ==
  /\ program \in {"appkitgui", "example"}
  /\ phase = "start"
  /\ runLocals' = None
  /\ nsappDelegate' = Some("AppDelegate")
  /\ phase' = "launching"
  /\ UNCHANGED <<program, files, delegateWindow, demoVars, lastWindowClosed,
                 openedURL, cursorPushed, raised, lastHandler, ret>>

run ==
  /\ program \in {"appkitgui", "example"}
  /\ phase = "start"
  /\ runLocals' = Some("AppDelegate")
  /\ nsappDelegate' = runLocals'
  /\ phase' = "launching"
  /\ UNCHANGED <<program, files, delegateWindow, demoVars, lastWindowClosed,
                 openedURL, cursorPushed, raised, lastHandler, ret>>

\* The delegate NSApp calls: the object it was given, while something owns it.
DelegateAlive == nsappDelegate # None /\ runLocals = nsappDelegate

(***************************************************************************)
(* AppDelegate.applicationDidFinishLaunching_: self.window =               *)
(* DemoWindow.alloc().init(), then self.window.show().                     *)
(***************************************************************************)
applicationDidFinishLaunching_ ==
  /\ phase = "launching"
  /\ DelegateAlive
  /\ delegateWindow' = Some("DemoWindow")
  /\ LET r == show IN
       /\ window' = r.window
       /\ views' = r.views
       /\ superview' = r.superview
       /\ arranged' = r.arranged
       /\ constraints' = r.constraints
       /\ raised' = r.raised
  /\ phase' = "running"
  /\ lastHandler' = <<"applicationDidFinishLaunching_">>
  /\ UNCHANGED <<program, files, runLocals, nsappDelegate, label_stack_list,
                 lastWindowClosed, openedURL, cursorPushed, ret>>

\* The user can reach the window's controls: the loop runs, the window shows.
Interactive == phase = "running" /\ window # None /\ Val(window).visible

(***************************************************************************)
(* DemoWindow.choose_file: run the open panel; on OK set label_file to the *)
(* chosen path, otherwise only print.                                      *)
(***************************************************************************)
ModalResponses == {0, NSFileHandlingPanelOKButton}
Paths == {"/tmp/a.txt", "/tmp/b.txt"}

choose_file_clears(response, path) ==
  IF response = NSFileHandlingPanelOKButton
  THEN [views |-> [views EXCEPT !["label_file"].stringValue = path]]
  ELSE [views |-> [views EXCEPT !["label_file"].stringValue = ""]]

choose_file(response, path) ==
  IF response = NSFileHandlingPanelOKButton
  THEN [views |-> [views EXCEPT !["label_file"].stringValue = path]]
  ELSE [views |-> views]

chooseFile_ ==
  /\ Interactive
  /\ \E response \in ModalResponses, path \in Paths :
       LET r == choose_file(response, path) IN
         /\ views' = r.views
         /\ lastHandler' = <<"choose_file", response>>
  /\ raised' = FALSE
  /\ UNCHANGED <<program, files, appVars, window, superview, arranged,
                 constraints, label_stack_list, lastWindowClosed, openedURL,
                 cursorPushed, ret>>

(***************************************************************************)
(* The checkbox, radio button and combo box callbacks.  They print what    *)
(* their sender holds and change nothing; the control's own state is       *)
(* AppKit's, and comes in with the sender.                                 *)
(***************************************************************************)
Checkboxes == {"checkbox1", "checkbox2", "checkbox3"}
Radios == {"radio1", "radio2", "radio3"}

checkbox_action ==
  /\ Interactive
  /\ \E sender \in Checkboxes, state \in {0, NSOnState} :
       lastHandler' = <<"checkbox_action">>
  /\ raised' = FALSE
  /\ UNCHANGED <<program, files, appVars, demoVars, lastWindowClosed,
                 openedURL, cursorPushed, ret>>

radioAction_ ==
  /\ Interactive
  /\ \E sender \in Radios : lastHandler' = <<"radioAction_">>
  /\ raised' = FALSE
  /\ UNCHANGED <<program, files, appVars, demoVars, lastWindowClosed,
                 openedURL, cursorPushed, ret>>

\* appkitgui.py: the combo box's delegate method, called when the user
\* selects an item; it prints only once self.combo_box is set.
comboBoxSelectionDidChange_ ==
  /\ Interactive
  /\ program = "appkitgui"
  /\ \E i \in DOMAIN views["combo_box"].items :
       lastHandler' = <<"comboBoxSelectionDidChange_",
                        "combo_box" \in DOMAIN views>>
  /\ raised' = FALSE
  /\ UNCHANGED <<program, files, appVars, demoVars, lastWindowClosed,
                 openedURL, cursorPushed, ret>>

\* example.py: the callbacks that only print what their sender holds.
PrintOnly ==
  {"comboBoxAction_", "comboBoxEdited_", "popUpButtonAction_",
   "timePickerAction_", "searchFieldAction_", "textFieldAction_",
   "openMenuAction_", "newMenuAction_"}

print_only ==
  /\ Interactive
  /\ program = "example"
  /\ \E h \in PrintOnly : lastHandler' = <<h>>
  /\ raised' = FALSE
  /\ UNCHANGED <<program, files, appVars, demoVars, lastWindowClosed,
                 openedURL, cursorPushed, ret>>

(***************************************************************************)
(* example.py: the Add and Remove buttons.  StackView.append is the        *)
(* package's: it adds the view as the stack's last arranged subview.       *)
(***************************************************************************)
LabelNames == <<"new_label_1", "new_label_2", "new_label_3", "new_label_4",
                "new_label_5", "new_label_6">>
\* The object a label() call returns: a new one, none of the live ones.
NewLabel ==
  LabelNames[CHOOSE n \in 1 .. MaxLabels + 1 :
               /\ LabelNames[n] \notin DOMAIN views
               /\ \A m \in 1 .. n - 1 : LabelNames[m] \in DOMAIN views]

ItemTitle(i) == <<"Item", i>>

StackView_append(s, stack, view) ==
  [s EXCEPT !.arranged = [@ EXCEPT ![stack] = Append(@, view)],
            !.superview = Put(@, view, stack)]

\* removeArrangedSubview_ takes the view off the arranged list,
\* removeFromSuperview takes it out of the view hierarchy.
removeArrangedSubview_(s, stack, view) ==
  [s EXCEPT !.arranged = [@ EXCEPT ![stack] = Without(@, view)]]
removeFromSuperview(s, view) ==
  [s EXCEPT !.superview = Drop(@, view),
            !.arranged = [k \in DOMAIN @ |-> Without(@[k], view)]]

Demo == [views |-> views, superview |-> superview, arranged |-> arranged,
         label_stack_list |-> label_stack_list, raised |-> FALSE]

\* Numbering the labels from one instead of from the count before the click.
button_add_to_stack_from_one(new) ==
  LET s0 == IF ~TruthyList(label_stack_list)
            THEN [Demo EXCEPT !.label_stack_list = Some(<<>>)] ELSE Demo
      i == Len(Val(s0.label_stack_list)) + 1
      s1 == [s0 EXCEPT !.views = Put(@, new, label(ItemTitle(i)))]
      s2 == [s1 EXCEPT !.label_stack_list = Some(Append(Val(@), new))]
  IN StackView_append(s2, "vstack4", new)

button_add_to_stack(new) ==
  LET s0 == IF ~TruthyList(label_stack_list)
            THEN [Demo EXCEPT !.label_stack_list = Some(<<>>)] ELSE Demo
      i == Len(Val(s0.label_stack_list))
      s1 == [s0 EXCEPT !.views = Put(@, new, label(ItemTitle(i)))]
      s2 == [s1 EXCEPT !.label_stack_list = Some(Append(Val(@), new))]
  IN StackView_append(s2, "vstack4", new)

buttonAddToStack_ ==
  /\ Interactive
  /\ program = "example"
  /\ Len(arranged["vstack4"]) < MaxLabels
  /\ LET r == button_add_to_stack(NewLabel) IN
       /\ views' = r.views
       /\ superview' = r.superview
       /\ arranged' = r.arranged
       /\ label_stack_list' = r.label_stack_list
       /\ raised' = r.raised
  /\ lastHandler' = <<"button_add_to_stack">>
  /\ UNCHANGED <<program, files, appVars, window, constraints,
                 lastWindowClosed, openedURL, cursorPushed, ret>>

\* list.pop() on an empty list raises IndexError.
button_remove_from_stack_unguarded ==
  IF label_stack_list = None \/ Val(label_stack_list) = <<>>
  THEN [Demo EXCEPT !.raised = TRUE]
  ELSE LET label_to_remove == Last(Val(label_stack_list))
           s1 == [Demo EXCEPT !.label_stack_list = Some(Front(Val(@)))]
           s2 == removeArrangedSubview_(s1, "vstack4", label_to_remove)
           s3 == removeFromSuperview(s2, label_to_remove)
       IN [s3 EXCEPT !.views = Drop(@, label_to_remove)]

button_remove_from_stack_keeps_view ==
  IF ~TruthyList(label_stack_list) THEN Demo
  ELSE [Demo EXCEPT !.label_stack_list = Some(Front(Val(@)))]

button_remove_from_stack ==
  IF ~TruthyList(label_stack_list) THEN Demo
  ELSE LET label_to_remove == Last(Val(label_stack_list))
           s1 == [Demo EXCEPT !.label_stack_list = Some(Front(Val(@)))]
           s2 == removeArrangedSubview_(s1, "vstack4", label_to_remove)
           s3 == removeFromSuperview(s2, label_to_remove)
       IN \* the last reference to the label goes with the local variable
          [s3 EXCEPT !.views = Drop(@, label_to_remove)]

buttonRemoveFromStack_ ==
  /\ Interactive
  /\ program = "example"
  /\ LET r == button_remove_from_stack IN
       /\ views' = r.views
       /\ superview' = r.superview
       /\ arranged' = r.arranged
       /\ label_stack_list' = r.label_stack_list
       /\ raised' = r.raised
  /\ lastHandler' = <<"button_remove_from_stack">>
  /\ UNCHANGED <<program, files, appVars, window, constraints,
                 lastWindowClosed, openedURL, cursorPushed, ret>>

(***************************************************************************)
(* LinkLabel's event methods.  The link is the one show() made, or, for    *)
(* the helper client, the one its last link() call returned.               *)
(***************************************************************************)
HasLink ==
  IF program = "api"
  THEN ret # None /\ Val(ret).fn = "link"
  ELSE Interactive /\ "link" \in DOMAIN views

TheLink == IF program = "api" THEN Val(ret).result ELSE views["link"]

SetLink(l) ==
  IF program = "api"
  THEN ret' = Some([Val(ret) EXCEPT !.result = l]) /\ views' = views
  ELSE views' = [views EXCEPT !["link"] = l] /\ ret' = ret

Events == {"leftMouseDown", "rightMouseDown"}

mouseDown_(self, event) ==
  [self |-> self, opened |-> Some(self.url)]

LinkMouseDown ==
  /\ HasLink
  /\ \E event \in Events :
       LET r == mouseDown_(TheLink, event) IN
         /\ SetLink(r.self)
         /\ openedURL' = r.opened
         /\ lastHandler' = <<"mouseDown_", event>>
  /\ raised' = FALSE
  /\ UNCHANGED <<program, files, appVars, window, superview, arranged,
                 constraints, label_stack_list, lastWindowClosed, cursorPushed>>

\* NSCursor.pointingHandCursor().push()
mouseEntered_ ==
  /\ HasLink
  /\ ~cursorPushed
  /\ cursorPushed' = TRUE
  /\ lastHandler' = <<"mouseEntered_">>
  /\ raised' = FALSE
  /\ UNCHANGED <<program, files, appVars, demoVars, lastWindowClosed,
                 openedURL, ret>>

\* NSCursor.pop()
mouseExited_ ==
  /\ HasLink
  /\ cursorPushed
  /\ cursorPushed' = FALSE
  /\ lastHandler' = <<"mouseExited_">>
  /\ raised' = FALSE
  /\ UNCHANGED <<program, files, appVars, demoVars, lastWindowClosed,
                 openedURL, ret>>

\* AppKit drops the view's cursor rectangles, then calls resetCursorRects,
\* which adds one over the bounds.
resetCursorRects ==
  /\ HasLink
  /\ SetLink([TheLink EXCEPT !.cursorRects = 1])
  /\ lastHandler' = <<"resetCursorRects">>
  /\ raised' = FALSE
  /\ UNCHANGED <<program, files, appVars, window, superview, arranged,
                 constraints, label_stack_list, lastWindowClosed, openedURL,
                 cursorPushed>>

(***************************************************************************)
(* Closing the window and ending the application.  When the last window    *)
(* closes AppKit asks the delegate applicationShouldTerminateAfterLast-    *)
(* WindowClosed_ and terminates on True; the Quit menu item sends          *)
(* terminate: directly.                                                    *)
(***************************************************************************)
Senders == {None, Some("NSApp")}

keeps_running(sender) == FALSE

applicationShouldTerminateAfterLastWindowClosed_(sender) == TRUE

CloseWindow ==
  /\ Interactive
  /\ "closable" \in Val(window).styleMask
  /\ window' = Some([Val(window) EXCEPT !.visible = FALSE, !.key = FALSE])
  /\ lastWindowClosed' = TRUE
  /\ lastHandler' = <<"close">>
  /\ UNCHANGED <<program, files, appVars, views, superview, arranged,
                 constraints, label_stack_list, openedURL, cursorPushed,
                 raised, ret>>

LastWindowClosed ==
  /\ phase = "running"
  /\ lastWindowClosed
  /\ lastWindowClosed' = FALSE
  /\ \E sender \in Senders :
       /\ phase' = IF DelegateAlive
                      /\ applicationShouldTerminateAfterLastWindowClosed_(sender)
                   THEN "terminated" ELSE phase
       /\ lastHandler' =
            <<"applicationShouldTerminateAfterLastWindowClosed_", sender>>
  /\ UNCHANGED <<program, files, runLocals, nsappDelegate, delegateWindow,
                 demoVars, openedURL, cursorPushed, raised, ret>>

\* The "Quit" menu item: terminate:
Quit ==
  /\ phase \in {"launching", "running"}
  /\ phase' = "terminated"
  /\ lastHandler' = <<"terminate:">>
  /\ UNCHANGED <<program, files, runLocals, nsappDelegate, delegateWindow,
                 demoVars, lastWindowClosed, openedURL, cursorPushed,
                 raised, ret>>

(***************************************************************************)
(* The helper client: calls of the helper functions with arguments drawn   *)
(* from small sets.                                                        *)
(***************************************************************************)
AlignArgs == {Omitted} \cup {Some(n) : n \in 0 .. MaxAlign}
DistributeArgs == {Omitted} \cup {Some(n) : n \in 0 .. MaxDistribute}
ValuesArgs == {None, Some(<<>>), Some(<<"a">>), Some(<<"a", "b">>),
               Some(<<"b", "a">>), Some(<<"b", "a", "a">>)}
ObjectArgs == {None, Self}
ActionArgs == {None, Some(""), Some("comboBoxAction:")}
Texts == {"AppKitGUI on GitHub", "docs"}
Urls == {"https://github.com/RhetTbull/appkitgui", "https://example.com"}
ImagePaths == {"image.jpeg", "missing.png"}
SizeArgs == {Omitted} \cup {Some(n) : n \in 0 .. MaxSize}

Return(fn, args, result) ==
  /\ ret' = Some([fn |-> fn, args |-> args, result |-> result])
  /\ raised' = IsException(result)
  /\ lastHandler' = <<"call", fn>>

call_hstack ==
  /\ program = "api"
  /\ \E a \in AlignArgs, d \in DistributeArgs :
       Return("hstack", <<a, d>>, hstack(a, d))
  /\ UNCHANGED <<program, files, appVars, demoVars, lastWindowClosed,
                 openedURL, cursorPushed>>

call_vstack ==
  /\ program = "api"
  /\ \E a \in AlignArgs, d \in DistributeArgs :
       Return("vstack", <<a, d>>, vstack(a, d))
  /\ UNCHANGED <<program, files, appVars, demoVars, lastWindowClosed,
                 openedURL, cursorPushed>>

call_combo_box ==
  /\ program = "api"
  /\ \E v \in ValuesArgs, t \in ObjectArgs, a \in ActionArgs, d \in ObjectArgs :
       Return("combo_box", <<v, t, a, d>>, combo_box(v, t, a, d))
  /\ UNCHANGED <<program, files, appVars, demoVars, lastWindowClosed,
                 openedURL, cursorPushed>>

call_link ==
  /\ program = "api"
  /\ \E t \in Texts, u \in Urls : Return("link", <<t, u>>, link(t, u))
  /\ UNCHANGED <<program, files, appVars, demoVars, lastWindowClosed,
                 openedURL, cursorPushed>>

call_image_view ==
  /\ program = "api"
  /\ \E p \in ImagePaths, w \in SizeArgs, h \in SizeArgs :
       Return("image_view", <<p, w, h>>, image_view(p, w, h))
  /\ UNCHANGED <<program, files, appVars, demoVars, lastWindowClosed,
                 openedURL, cursorPushed>>

\* The bounds and radii a DotView is drawn with: the sizes up to MaxBounds
\* and the 100 by 100 of show(), the radius initWithFrame_ sets (None: no
\* changeRadius_ yet) and the slider's values up to MaxRadius.
BoundsSizes == (0 .. MaxBounds) \cup {100}
RadiusArgs == {None} \cup {Some(r) : r \in 0 .. MaxRadius}

call_drawRect_ ==
  /\ program = "api"
  /\ \E w \in BoundsSizes, h \in BoundsSizes, r \in RadiusArgs :
       LET v0 == setBoundsSize(DotView_initWithFrame_, w, h)
           v1 == IF r = None THEN v0 ELSE changeRadius_(v0, Val(r))
       IN Return("drawRect_", <<w, h, v1.radius>>, drawRect_(v1, v1.bounds))
  /\ UNCHANGED <<program, files, appVars, demoVars, lastWindowClosed,
                 openedURL, cursorPushed>>

Next ==
  \/ run
  \/ applicationDidFinishLaunching_
  \/ chooseFile_
  \/ checkbox_action
  \/ radioAction_
  \/ comboBoxSelectionDidChange_
  \/ print_only
  \/ buttonAddToStack_
  \/ buttonRemoveFromStack_
  \/ LinkMouseDown
  \/ mouseEntered_
  \/ mouseExited_
  \/ resetCursorRects
  \/ CloseWindow
  \/ LastWindowClosed
  \/ Quit
  \/ call_hstack
  \/ call_vstack
  \/ call_combo_box
  \/ call_link
  \/ call_image_view
  \/ call_drawRect_

Spec == Init /\ [][Next]_vars

\* AppKit does ask the delegate once the last window has closed.
FairSpec == Spec /\ WF_vars(LastWindowClosed)

(***************************************************************************)
(*                               Properties                                *)
(***************************************************************************)

\* C1: when the open panel returns anything but the OK button, choose_file
\* leaves label_file and every other field of the DemoWindow as they were
\* and raises nothing.
C1_CancelLeavesDemoWindowUnchanged ==
  [][(chooseFile_ /\ lastHandler'[2] # NSFileHandlingPanelOKButton)
       => (UNCHANGED demoVars /\ ~raised')]_vars

\* C1 witness: the panel was cancelled after an earlier run had set label_file.
C1_Witness ==
  /\ lastHandler[1] = "choose_file"
  /\ lastHandler[2] # NSFileHandlingPanelOKButton
  /\ views["label_file"].stringValue \in Paths

\* C3: while the run loop runs, App.run's local still refers to the delegate
\* NSApp was given, and once applicationDidFinishLaunching_ has run
\* AppDelegate.window refers to the DemoWindow.
C3_OwnersKeepTheirReferences ==
  phase \in {"launching", "running"} =>
    /\ nsappDelegate = Some("AppDelegate")
    /\ runLocals = nsappDelegate
    /\ (phase = "running" => delegateWindow = Some("DemoWindow"))

\* C3 witness: the loop still runs after callbacks ran and the window closed.
C3_Witness ==
  /\ phase = "running"
  /\ lastWindowClosed
  /\ label_stack_list # None
  /\ runLocals = Some("AppDelegate")
  /\ delegateWindow = Some("DemoWindow")

\* C4: hstack and vstack return a stack view with spacing 8, their own
\* orientation, the alignment and distribution passed (center-Y or left,
\* and Fill, when left out), and no arranged subviews.
C4_StackHelpers ==
  (ret # None /\ Val(ret).fn \in {"hstack", "vstack"}) =>
    LET r == Val(ret).result
        align == Val(ret).args[1]
        distribute == Val(ret).args[2]
        horizontal == Val(ret).fn = "hstack"
    IN /\ r.spacing = 8
       /\ r.orientation = IF horizontal
                          THEN NSUserInterfaceLayoutOrientationHorizontal
                          ELSE NSUserInterfaceLayoutOrientationVertical
       /\ r.alignment = IF align # Omitted THEN Val(align)
                        ELSE IF horizontal THEN NSLayoutAttributeCenterY
                        ELSE NSLayoutAttributeLeft
       /\ r.distribution = IF distribute # Omitted THEN Val(distribute)
                           ELSE NSStackViewDistributionFill
       /\ r.arranged = <<>>

\* C4 witness: a vstack call that passes a distribution and no alignment.
C4_Witness ==
  /\ ret # None
  /\ Val(ret).fn = "vstack"
  /\ Val(ret).args = <<Omitted, Some(MaxDistribute)>>

\* C5: with image.jpeg missing, image_view raises nothing, and show() runs
\* to its end: the image view is the main view's last arranged subview and
\* the window is visible.
C5_MissingImageDoesNotStopShow ==
  /\ (program = "appkitgui" /\ delegateWindow # None) =>
       /\ "image" \in DOMAIN views
       /\ Last(arranged["main_view"]) = "image"
       /\ superview["image"] = "main_view"
       /\ (lastHandler = <<"applicationDidFinishLaunching_">> =>
             ~raised /\ Val(window).visible /\ Val(window).key)
  /\ (ret # None /\ Val(ret).fn = "image_view") =>
       /\ ~raised
       /\ Val(ret).result.kind = "NSImageView"
       /\ Val(ret).result.image.path = Val(ret).args[1]

\* C5 witness: show() has just returned and there is no image.jpeg.
C5_Witness ==
  /\ program = "appkitgui"
  /\ files = {}
  /\ lastHandler = <<"applicationDidFinishLaunching_">>
  /\ Val(window).visible
  /\ ~views["image"].image.valid

\* C6: applicationShouldTerminateAfterLastWindowClosed_ answers True, so
\* once the demo window is closed the application terminates: it runs with
\* no window only until AppKit has asked the delegate.
C6_TerminatesAfterLastWindowClosed ==
  /\ []((phase = "running" /\ ~Val(window).visible) => lastWindowClosed)
  /\ ((phase = "running" /\ lastWindowClosed) ~> (phase = "terminated"))

\* C6 witness: the application ended because the delegate was asked.
C6_Witness ==
  /\ phase = "terminated"
  /\ lastHandler[1] = "applicationShouldTerminateAfterLastWindowClosed_"
  /\ ~Val(window).visible

\* C7: combo_box holds exactly a non-empty list's values, in order, with
\* item 0 selected, and nothing for None or an empty list; it always sets
\* the target, and sets the delegate and the action exactly when one was
\* passed (an empty selector string is no action).
C7_ComboBox ==
  /\ (ret # None /\ Val(ret).fn = "combo_box") =>
       LET r == Val(ret).result
           values == Val(ret).args[1]
           target == Val(ret).args[2]
           action == Val(ret).args[3]
           delegate == Val(ret).args[4]
           empty == values = None \/ values = Some(<<>>)
       IN /\ ~empty => (r.items = Val(values) /\ r.selected = 0)
          /\ empty => (r.items = <<>> /\ r.selected = -1)
          /\ r.targetSet /\ r.target = target
          /\ r.delegateSet <=> delegate # None
          /\ r.delegate = delegate
          /\ r.actionSet <=> (action # None /\ action # Some(""))
          /\ r.actionSet => r.action = action
  /\ (program = "appkitgui" /\ "combo_box" \in DOMAIN views) =>
       /\ views["combo_box"].items = <<"Combo 1", "Combo 2", "Combo 3">>
       /\ views["combo_box"].selected = 0
       /\ views["combo_box"].target = Self
       /\ views["combo_box"].delegate = Self

\* C7 witness: a call with several values, an action and no delegate.
C7_Witness ==
  /\ ret # None
  /\ Val(ret).fn = "combo_box"
  /\ Val(ret).args = <<Some(<<"b", "a", "a">>), Self, Some("comboBoxAction:"), None>>
  /\ Val(ret).result.selected = 0

\* The link the properties speak of, and the arguments link() built it from.
LinkExists == IF program = "api" THEN ret # None /\ Val(ret).fn = "link"
              ELSE "link" \in DOMAIN views
LinkArgs == IF program = "api" THEN Val(ret).args
            ELSE <<"AppKitGUI on GitHub", "https://github.com/RhetTbull/appkitgui">>

\* C8: a LinkLabel made by link(text, url) is never editable and never
\* selectable, no event method changes its URL or its text, and every
\* mouseDown_ opens the URL it was made with.
C8_LinkLabel ==
  LinkExists =>
    /\ ~TheLink.editable
    /\ ~TheLink.selectable
    /\ TheLink.stringValue = LinkArgs[1]
    /\ TheLink.url = LinkArgs[2]
    /\ lastHandler[1] = "mouseDown_" => openedURL = Some(LinkArgs[2])

\* C8 witness: a link made with the second URL has been entered, had its
\* cursor rectangles reset and been clicked.
C8_Witness ==
  /\ program = "api"
  /\ LinkExists
  /\ LinkArgs[2] = "https://example.com"
  /\ TheLink.cursorRects = 1
  /\ cursorPushed
  /\ lastHandler[1] = "mouseDown_"

\* C9: after any clicks on Add and Remove the labels arranged in vstack4 are
\* the labels of _label_stack_list, in the same order, each of them a live
\* view inside vstack4.
C9_StackMatchesList ==
  (program = "example" /\ "vstack4" \in DOMAIN arranged) =>
    LET list == IF label_stack_list = None THEN <<>> ELSE Val(label_stack_list)
    IN /\ arranged["vstack4"] = list
       /\ \A i \in DOMAIN list :
            /\ list[i] \in DOMAIN views
            /\ list[i] \in DOMAIN superview
            /\ superview[list[i]] = "vstack4"
       /\ \A v \in DOMAIN superview :
            superview[v] = "vstack4" => v \in Range(list)

\* C9 witness: a label was removed and others are still there.
C9_Witness ==
  /\ lastHandler[1] = "button_remove_from_stack"
  /\ label_stack_list # None
  /\ Len(Val(label_stack_list)) = MaxLabels - 1
  /\ Len(arranged["vstack4"]) = MaxLabels - 1

\* C10: Remove with no label in the stack (before any Add, or after every
\* label was removed) returns without raising and leaves vstack4 and
\* _label_stack_list as they were.
C10_RemoveOnEmptyIsNoOp ==
  [][(buttonRemoveFromStack_
        /\ (label_stack_list = None \/ label_stack_list = Some(<<>>)))
       => (UNCHANGED demoVars /\ ~raised')]_vars

\* C10 witness: Remove was clicked while _label_stack_list was still unset.
C10_Witness ==
  /\ lastHandler[1] = "button_remove_from_stack"
  /\ label_stack_list = None
  /\ arranged["vstack4"] = <<>>
  /\ ~raised

\* The titles of the labels arranged in vstack4, top to bottom.
StackTitles ==
  [i \in DOMAIN arranged["vstack4"] |-> views[arranged["vstack4"][i]].stringValue]

\* C11: the labels in vstack4 are always titled "Item 0" to "Item n-1" in
\* order (no gap, no duplicate); Add puts a label titled "Item i" at the end,
\* i the number of labels present before the click, and Remove on a stack
\* that has labels takes away exactly the last one, the most recently added
\* label still present.
C11_LastInFirstOutItemTitles ==
  /\ []((program = "example" /\ "vstack4" \in DOMAIN arranged) =>
          StackTitles = [i \in 1 .. Len(arranged["vstack4"]) |-> ItemTitle(i - 1)])
  /\ [][buttonAddToStack_ =>
          /\ Front(arranged'["vstack4"]) = arranged["vstack4"]
          /\ views'[Last(arranged'["vstack4"])].stringValue
               = ItemTitle(Len(arranged["vstack4"]))]_vars
  /\ [][(buttonRemoveFromStack_ /\ arranged["vstack4"] # <<>>) =>
          /\ arranged'["vstack4"] = Front(arranged["vstack4"])
          /\ Last(arranged["vstack4"]) \notin DOMAIN views']_vars

\* C11 witness: three labels were added and the last one removed; "Item 0"
\* and "Item 1" are left.
C11_Witness ==
  /\ lastHandler[1] = "button_remove_from_stack"
  /\ "vstack4" \in DOMAIN arranged
  /\ Len(arranged["vstack4"]) = 2
  /\ StackTitles = <<ItemTitle(0), ItemTitle(1)>>

\* C12: for every bounds size (w, h) and radius r, drawRect_ computes the dot
\* rectangle with origin (w/2 - r, h/2 - r) and size 2r by 2r: its centre is
\* the centre of the bounds and its diameter twice the radius.  Lengths are
\* in half points, so the origin w/2 - r reads w - 2r and the size 2r reads 4r.
C12_DotRect ==
  (ret # None /\ Val(ret).fn = "drawRect_") =>
    LET w == Val(ret).args[1]
        h == Val(ret).args[2]
        r == Val(ret).args[3]
        dotRect == Val(ret).result.dotRect
    IN /\ dotRect.x = w - 2 * r
       /\ dotRect.y = h - 2 * r
       /\ dotRect.width = 4 * r
       /\ dotRect.height = 4 * r
       \* twice the centre is twice the centre of the bounds
       /\ 2 * dotRect.x + dotRect.width = 2 * w
       /\ 2 * dotRect.y + dotRect.height = 2 * h
       /\ Val(ret).result.oval[2] = dotRect

\* C12 witness: a dot of radius 2 drawn in bounds of odd width 3 and even
\* height 2: its origin is (-1/2, -1).
C12_Witness ==
  /\ ret # None
  /\ Val(ret).fn = "drawRect_"
  /\ Val(ret).args = <<3, 2, 2>>
  /\ Val(ret).result.dotRect.x = 0 - 1
  /\ Val(ret).result.dotRect.y = 0 - 2

\* The statements show() runs, and the DemoWindow as it is before the k-th.
ShowStmts == IF program = "example" THEN show_example ELSE show_appkitgui
Before(k) == Exec(DemoWindow_init, SubSeq(ShowStmts, 1, k - 1))

\* C13: every constraint between two views is activated when the two already
\* share an ancestor.  In show(), each activation comes after the statements
\* that put both views under a common ancestor, so show() raises nothing and
\* every constraint it leaves relates views with a common ancestor; the main
\* view is under the content view with top, left and right constraints to it
\* and no bottom one, and the separator is in the main view with its right
\* edge constraint, inset by EDGE_INSET.
C13_ConstraintsAfterCommonAncestor ==
  (program \in {"appkitgui", "example"} /\ delegateWindow # None) =>
    /\ lastHandler = <<"applicationDidFinishLaunching_">> =>
         /\ \A k \in DOMAIN ShowStmts :
              ShowStmts[k].op = "constrain" =>
                /\ ~Before(k).raised
                /\ HaveCommonAncestor(Before(k).superview,
                                      ShowStmts[k].a, ShowStmts[k].b)
         /\ ~raised
    /\ \A c \in constraints :
         c.toItem # "" => HaveCommonAncestor(superview, c.item, c.toItem)
    /\ superview["main_view"] = "content"
    /\ superview["hsep"] = "main_view"
    /\ program = "appkitgui" =>
         /\ {c.attr : c \in {d \in constraints : d.item = "main_view"}}
              = {"top", "left", "right"}
         /\ \A c \in constraints :
              c.item = "main_view" => c.toItem = "content"
         /\ [item |-> "hsep", toItem |-> "main_view", attr |-> "right",
             constant |-> 0 - EDGE_INSET] \in constraints

\* C13 witness: appkitgui.py's show() has run to its end, the three
\* constraints of the main view and the separator's are active.
C13_Witness ==
  /\ program = "appkitgui"
  /\ delegateWindow # None
  /\ ~raised
  /\ Val(window).visible
  /\ Cardinality({c \in constraints : c.toItem = "content"}) = 3
  /\ \E c \in constraints : c.item = "hsep" /\ c.toItem = "main_view"

====
